---- MODULE Spec2Model ----
(***************************************************************************)
(* A model of hometheater's IMDb scraper (src/src/hometheater/imdb.py):    *)
(* the match scorer, the two threshold-filtered searches, the three detail *)
(* lookups and the season/episode listing.                                 *)
(*                                                                         *)
(* Text is modelled as a sequence of one-character strings, so that        *)
(* str.lower, str.split, str.strip, the `in` substring test and the        *)
(* regular expressions are computed as Python computes them.  A fetched    *)
(* and parsed document is an input: the variable `page` holds the nodes    *)
(* the selectors of a handler return.                                      *)
(***************************************************************************)
EXTENDS Integers, Sequences, FiniteSets

VARIABLES query, title, fwd, bwd, page, result, op

vars == <<query, title, fwd, bwd, page, result, op>>

---------------------------------------------------------------------------
(* Bounds of the model.                                                    *)

\* words per generated query / title string
MaxWords == 2
\* result items on a search page of titled items only
MaxNodes == 6
\* result items on a search page that mixes titled and defective items
MaxShort == 3
\* characters of a generated episode title text
MaxLen == 6
\* episode nodes on a season page
MaxEpisodes == 4
\* persons a structured block lists for one role
MaxActors == 11
\* cast / principal-credit cards on a detail page
MaxCards == 2

---------------------------------------------------------------------------
(* Program constants.                                                      *)

ExactScore == 100
OrderBonus == 20
Threshold == 70
TopN == 5
MovieCastCap == 5
ShowCastCap == 10
YearLen == 4

---------------------------------------------------------------------------
(* Python text primitives.                                                 *)

LowerChar(c) ==
    CASE c = "A" -> "a"
      [] c = "B" -> "b"
      [] c = "C" -> "c"
      [] c = "E" -> "e"
      [] c = "S" -> "s"
      [] c = "T" -> "t"
      [] OTHER -> c

\* str.lower()
Lower(s) == [i \in 1..Len(s) |-> LowerChar(s[i])]

IsSpace(c) == c = " "

Digits == {"0", "1", "2", "3", "4", "5", "6", "7", "8", "9"}

DigitVal(c) ==
    CASE c = "0" -> 0 [] c = "1" -> 1 [] c = "2" -> 2 [] c = "3" -> 3
      [] c = "4" -> 4 [] c = "5" -> 5 [] c = "6" -> 6 [] c = "7" -> 7
      [] c = "8" -> 8 [] c = "9" -> 9

\* int() of a run of digits
RECURSIVE ToInt(_)
ToInt(ds) ==
    IF ds = <<>> THEN 0
    ELSE ToInt(SubSeq(ds, 1, Len(ds) - 1)) * 10 + DigitVal(ds[Len(ds)])

\* str.split() without arguments: the maximal runs of non-whitespace, in order
RECURSIVE SplitFrom(_, _, _)
SplitFrom(s, i, cur) ==
    IF i > Len(s) THEN (IF cur = <<>> THEN <<>> ELSE <<cur>>)
    ELSE IF IsSpace(s[i])
         THEN (IF cur = <<>> THEN <<>> ELSE <<cur>>) \o SplitFrom(s, i + 1, <<>>)
         ELSE SplitFrom(s, i + 1, Append(cur, s[i]))

Split(s) == SplitFrom(s, 1, <<>>)

\* str.split(sep) with a one-character separator: empty pieces are kept
RECURSIVE SplitOnFrom(_, _, _, _)
SplitOnFrom(s, sep, i, cur) ==
    IF i > Len(s) THEN <<cur>>
    ELSE IF s[i] = sep
         THEN <<cur>> \o SplitOnFrom(s, sep, i + 1, <<>>)
         ELSE SplitOnFrom(s, sep, i + 1, Append(cur, s[i]))

SplitOn(s, sep) == SplitOnFrom(s, sep, 1, <<>>)

\* str.strip(): leading and trailing whitespace removed
Strip(s) ==
    LET keep == {i \in 1..Len(s) : ~IsSpace(s[i])}
    IN  IF keep = {} THEN <<>>
        ELSE LET lo == CHOOSE i \in keep : \A j \in keep : i <= j
                 hi == CHOOSE i \in keep : \A j \in keep : j <= i
             IN  SubSeq(s, lo, hi)

\* `w in s` for strings: w occurs in s as a contiguous substring
Contains(s, w) ==
    \E i \in 0..(Len(s) - Len(w)) : SubSeq(s, i + 1, i + Len(w)) = w

\* s[:n]
Prefix(s, n) == SubSeq(s, 1, IF Len(s) < n THEN Len(s) ELSE n)

Range(s) == {s[i] : i \in 1..Len(s)}

---------------------------------------------------------------------------
(* _match_score.  A score is the exact rational num/den: Python's          *)
(* (len(matching_words) / total_query_words) * 100 (+ 20).  The kind       *)
(* "ZeroDivisionError" is the exception the division raises when           *)
(* total_query_words is 0.                                                 *)

common_words == { <<"t","h","e">>, <<"a">>, <<"a","n">>, <<"a","n","d">>, <<"&">> }

Score(n, d) == [kind |-> "score", num |-> n, den |-> d]

ZeroDivisionError == [kind |-> "ZeroDivisionError", num |-> 0, den |-> 1]

NotCalled == [kind |-> "none", num |-> 0, den |-> 1]

\* the words of a lower-cased string that are not common words, as a set
ContentWords(s) == {w \in Range(Split(s)) : w \notin common_words}

\* a variant without the `if not matching_words: return 0` guard
_match_score_NoEmptyGuard(q, t) ==
    LET lq == Lower(q)
        lt == Lower(t)
        query_words == ContentWords(lq)
        matching_words == query_words \cap ContentWords(lt)
        total_query_words == Cardinality(query_words)
        in_order == \A w \in Range(Split(lq)) : Contains(lt, w)
    IN  IF lq = lt THEN Score(ExactScore, 1)
        ELSE IF total_query_words = 0 THEN ZeroDivisionError
        ELSE Score(Cardinality(matching_words) * 100
                     + (IF in_order THEN OrderBonus * total_query_words ELSE 0),
                   total_query_words)

\* a variant whose denominator counts every token of the query, stop words
\* and repetitions included: total_query_words = len(query.split())
_match_score_CountsAllTokens(q, t) ==
    LET lq == Lower(q)
        lt == Lower(t)
        matching_words == ContentWords(lq) \cap ContentWords(lt)
        total_query_words == Len(Split(lq))
        in_order == \A w \in Range(Split(lq)) : Contains(lt, w)
    IN  IF lq = lt THEN Score(ExactScore, 1)
        ELSE IF matching_words = {} THEN Score(0, 1)
        ELSE Score(Cardinality(matching_words) * 100
                     + (IF in_order THEN OrderBonus * total_query_words ELSE 0),
                   total_query_words)

_match_score(q, t) ==
    LET lq == Lower(q)
        lt == Lower(t)
        query_words == ContentWords(lq)
        title_words == ContentWords(lt)
        matching_words == query_words \cap title_words
        total_query_words == Cardinality(query_words)
        in_order == \A w \in Range(Split(lq)) : Contains(lt, w)
    IN  IF lq = lt THEN Score(ExactScore, 1)
        ELSE IF matching_words = {} THEN Score(0, 1)
        ELSE IF total_query_words = 0 THEN ZeroDivisionError
        ELSE Score(Cardinality(matching_words) * 100
                     + (IF in_order THEN OrderBonus * total_query_words ELSE 0),
                   total_query_words)

\* comparisons of two scores
ScoreGE(a, b) == a.num * b.den >= b.num * a.den
ScoreEQ(a, b) == a.num * b.den = b.num * a.den
ScoreGT(a, b) == a.num * b.den > b.num * a.den

---------------------------------------------------------------------------
(* Generated strings: up to MaxWords vocabulary words joined by one space. *)
(* The empty word gives leading, trailing and doubled spaces.              *)

Vocabulary == { <<>>, <<"a">>, <<"T","h","e">>, <<"b">>, <<"B">>, <<"b","c">> }

RECURSIVE Join(_)
Join(ws) ==
    IF ws = <<>> THEN <<>>
    ELSE IF Len(ws) = 1 THEN ws[1]
    ELSE ws[1] \o <<" ">> \o Join(Tail(ws))

Strs == {Join(ws) : ws \in UNION {[1..n -> Vocabulary] : n \in 0..MaxWords}}

NoPage == [kind |-> "none"]
NoResult == [kind |-> "none"]

---------------------------------------------------------------------------
(* Specification of the scorer: a pair of strings is drawn and the scorer  *)
(* is called on it in both argument orders.                                *)

InitScore ==
    /\ query \in Strs
    /\ title \in Strs
    /\ fwd = NotCalled
    /\ bwd = NotCalled
    /\ page = NoPage
    /\ result = NoResult
    /\ op = "none"

\* _match_score(query, title)
ScoreQueryTitle ==
    /\ fwd = NotCalled
    /\ fwd' = _match_score(query, title)
    /\ UNCHANGED <<query, title, bwd, page, result, op>>

\* _match_score(title, query)
ScoreTitleQuery ==
    /\ bwd = NotCalled
    /\ bwd' = _match_score(title, query)
    /\ UNCHANGED <<query, title, fwd, page, result, op>>

NextScore == ScoreQueryTitle \/ ScoreTitleQuery

SpecScore == InitScore /\ [][NextScore]_vars

---------------------------------------------------------------------------
(* Properties of the scorer.                                               *)

Tokens(s) == Range(Split(Lower(s)))

\* the string has a word, and every word of it is a stop word
StopWordOnly(s) == Tokens(s) # {} /\ Tokens(s) \subseteq common_words

BothCalled == fwd.kind # "none" /\ bwd.kind # "none"

\* C6 as stated: for a query of stop words only, _match_score returns 0 for
\* every title.
C6_StopWordQueryScoresZero ==
    (fwd.kind # "none" /\ StopWordOnly(query)) => fwd = Score(0, 1)

\* C6, amended: for a query of stop words only, _match_score raises nothing
\* and returns 0 for every title that differs from the query after
\* case-folding, and 100 for a title that equals it after case-folding.
C6_StopWordQueryScoresZeroUnlessEqual ==
    (fwd.kind # "none" /\ StopWordOnly(query)) =>
        /\ fwd.kind = "score"
        /\ Lower(query) # Lower(title) => fwd = Score(0, 1)
        /\ Lower(query) = Lower(title) => fwd = Score(ExactScore, 1)

\* a query of two stop words scored against a different title that has a
\* word other than a stop word
C6_Witness ==
    /\ fwd.kind # "none"
    /\ StopWordOnly(query)
    /\ Len(Split(query)) >= 2
    /\ Lower(query) # Lower(title)
    /\ ContentWords(Lower(title)) # {}
    /\ fwd = Score(0, 1)

\* C7 as stated: for strings whose case-folded, stop-word-filtered word sets
\* are identical, _match_score(a, b) equals _match_score(b, a).
C7_SameContentWordsSymmetric ==
    (BothCalled /\ ContentWords(Lower(query)) = ContentWords(Lower(title))) =>
        /\ fwd.kind = "score" /\ bwd.kind = "score"
        /\ ScoreEQ(fwd, bwd)

\* C7, amended: for strings whose case-folded word sets are identical with
\* the stop words included, _match_score(a, b) equals _match_score(b, a);
\* when only the stop-word-filtered word sets are identical, the two scores
\* are equal or differ by exactly the order bonus of 20.
C7_SameWordsSymmetric ==
    BothCalled =>
        /\ Tokens(query) = Tokens(title) =>
              /\ fwd.kind = "score" /\ bwd.kind = "score"
              /\ ScoreEQ(fwd, bwd)
        /\ ContentWords(Lower(query)) = ContentWords(Lower(title)) =>
              /\ fwd.kind = "score" /\ bwd.kind = "score"
              /\ LET d == fwd.num * bwd.den - bwd.num * fwd.den
                     b == OrderBonus * fwd.den * bwd.den
                 IN  d \in {0, b, 0 - b}

\* two different strings of the same words, scored in both orders, with the
\* order bonus awarded
C7_Witness ==
    /\ BothCalled
    /\ Tokens(query) = Tokens(title)
    /\ Lower(query) # Lower(title)
    /\ ContentWords(Lower(query)) # {}
    /\ fwd.num > ExactScore * fwd.den
    /\ ScoreEQ(fwd, bwd)

---------------------------------------------------------------------------
(* Document nodes.  An element a selector may or may not find is a record  *)
(* with the flag `present` and the element's text.                         *)

Elem(t) == [present |-> TRUE, text |-> t]
Absent == [present |-> FALSE, text |-> <<>>]

\* a search-result item: its title link (href, text), year and subtext elements
Item(t, h, y, s) == [title_elem |-> t, href |-> h, year_elem |-> y, subtext_elem |-> s]

\* Python's None and a returned list
None == [kind |-> "None", items |-> <<>>]
List(xs) == [kind |-> "list", items |-> xs]

base_url == <<"h","t","t","p","s",":","/","/","w","w","w",".","i","m","d","b",".","c","o","m">>

---------------------------------------------------------------------------
(* re.search(r'/title/(tt\d+)/', link) and re.search(r'/name/(nm\d+)/',     *)
(* link): `lead` is the literal text before the digits, whose last two     *)
(* characters open the group.                                              *)

TitleLead == <<"/","t","i","t","l","e","/","t","t">>
NameLead == <<"/","n","a","m","e","/","n","m">>

\* the length of the maximal run of digits of s that starts at position i
RECURSIVE DigitRun(_, _)
DigitRun(s, i) ==
    IF i > Len(s) \/ s[i] \notin Digits THEN 0 ELSE 1 + DigitRun(s, i + 1)

IdMatchAt(s, lead, i) ==
    /\ i + Len(lead) - 1 <= Len(s)
    /\ SubSeq(s, i, i + Len(lead) - 1) = lead
    /\ LET k == DigitRun(s, i + Len(lead))
       IN  /\ k >= 1
           /\ i + Len(lead) + k <= Len(s)
           /\ s[i + Len(lead) + k] = "/"

\* the match object of the leftmost match: found, and group(1)
RECURSIVE IdSearchFrom(_, _, _)
IdSearchFrom(s, lead, i) ==
    IF i > Len(s) THEN [found |-> FALSE, group |-> <<>>]
    ELSE IF IdMatchAt(s, lead, i)
         THEN [found |-> TRUE,
               group |-> SubSeq(s, i + Len(lead) - 2,
                                i + Len(lead) + DigitRun(s, i + Len(lead)) - 1)]
         ELSE IdSearchFrom(s, lead, i + 1)

IdSearch(s, lead) == IdSearchFrom(s, lead, 1)

---------------------------------------------------------------------------
(* search_movie and search_person.                                         *)

\* list.sort(key=match_score, reverse=True): stable, descending.  The last
\* element goes behind every element whose score is at least its own.
RECURSIVE SortByScoreDesc(_)
SortByScoreDesc(xs) ==
    IF xs = <<>> THEN <<>>
    ELSE LET front == SortByScoreDesc(SubSeq(xs, 1, Len(xs) - 1))
             x == xs[Len(xs)]
             n == Cardinality({i \in 1..Len(front) :
                                 ScoreGE(front[i].match_score, x.match_score)})
         IN  SubSeq(front, 1, n) \o <<x>> \o SubSeq(front, n + 1, Len(front))

\* a variant that returns the empty list where the code returns None
TopOrNone_EmptyList(results) == List(Prefix(results, TopN))

\* results[:5] if results else None
TopOrNone(results) ==
    IF results = <<>> THEN None ELSE List(Prefix(results, TopN))

\* the acceptance test `match_score >= 70`
Accepts(score) == ScoreGE(score, Score(Threshold, 1))

\* one pass of the loop body of search_movie: what the item adds to results
MovieEntry(q, item) ==
    IF ~item.title_elem.present THEN <<>>
    ELSE LET link == item.href
             imdb_id == IdSearch(link, TitleLead)
         IN  IF ~imdb_id.found THEN <<>>
             ELSE LET match_score == _match_score(q, item.title_elem.text)
                  IN  IF match_score.kind # "score" THEN <<>>
                      ELSE IF ~Accepts(match_score) THEN <<>>
                      ELSE << [movieID |-> imdb_id.group,
                               title |-> item.title_elem.text,
                               year |-> IF item.year_elem.present
                                        THEN item.year_elem.text ELSE <<>>,
                               url |-> base_url \o link,
                               match_score |-> match_score] >>

\* one pass of the loop body of search_person
PersonEntry(q, item) ==
    IF ~item.title_elem.present THEN <<>>
    ELSE LET link == item.href
             person_id == IdSearch(link, NameLead)
         IN  IF ~person_id.found THEN <<>>
             ELSE LET match_score == _match_score(q, item.title_elem.text)
                  IN  IF match_score.kind # "score" THEN <<>>
                      ELSE IF ~Accepts(match_score) THEN <<>>
                      ELSE << [personID |-> person_id.group,
                               name |-> item.title_elem.text,
                               profession |-> IF item.subtext_elem.present
                                              THEN item.subtext_elem.text ELSE <<>>,
                               url |-> base_url \o link,
                               match_score |-> match_score] >>

RECURSIVE MovieResults(_, _)
MovieResults(q, items) ==
    IF items = <<>> THEN <<>>
    ELSE MovieResults(q, SubSeq(items, 1, Len(items) - 1))
           \o MovieEntry(q, items[Len(items)])

RECURSIVE PersonResults(_, _)
PersonResults(q, items) ==
    IF items = <<>> THEN <<>>
    ELSE PersonResults(q, SubSeq(items, 1, Len(items) - 1))
           \o PersonEntry(q, items[Len(items)])

search_movie(q, items) == TopOrNone(SortByScoreDesc(MovieResults(q, items)))

search_person(q, items) == TopOrNone(SortByScoreDesc(PersonResults(q, items)))

---------------------------------------------------------------------------
(* Search inputs: the queries, and the items a results page may hold.      *)

MovieLink == <<"/","t","i","t","l","e","/","t","t","1","/">>
PersonLink == <<"/","n","a","m","e","/","n","m","2","/">>

SearchQueries == { <<"b"," ","c">>, <<"c">> }

\* titles that word-match the query <<"b"," ","c">> with scores 100, 100, 120, 50
ScoredTitles == { <<"B"," ","C">>, <<"b"," ","c">>, <<"c"," ","b">>, <<"b">> }

\* the same and a title that scores exactly 70 against it
SearchTitles == ScoredTitles \cup { <<"b","c"," ","b">> }

YearOf(t) == IF t = <<"B"," ","C">> THEN Elem(<<"1","9","9","9">>) ELSE Absent

Titled(t, link) == Item(Elem(t), link, YearOf(t), YearOf(t))

SeqsUpTo(S, n) == UNION {[1..k -> S] : k \in 0..n}

\* the item lists of a page whose links are `good`: every list of up to
\* MaxShort items drawn from an item without a title link, an item whose
\* link is of the other kind and the titled items, and every list of up to
\* MaxNodes titled items
ItemLists(good, other) ==
    SeqsUpTo({ Item(Absent, <<>>, Absent, Absent),
               Item(Elem(<<"B"," ","C">>), other, Absent, Absent) }
             \cup {Titled(t, good) : t \in SearchTitles}, MaxShort)
    \cup SeqsUpTo({Titled(t, good) : t \in ScoredTitles}, MaxNodes)

SearchPage(items) == [kind |-> "search", items |-> items]

InitSearch ==
    /\ query = <<>>
    /\ title = <<>>
    /\ fwd = NotCalled
    /\ bwd = NotCalled
    /\ page = NoPage
    /\ result = NoResult
    /\ op = "none"

SearchMovie ==
    /\ op = "none"
    /\ \E q \in SearchQueries, items \in ItemLists(MovieLink, PersonLink) :
          /\ query' = q
          /\ page' = SearchPage(items)
          /\ result' = search_movie(q, items)
    /\ op' = "search_movie"
    /\ UNCHANGED <<title, fwd, bwd>>

SearchPerson ==
    /\ op = "none"
    /\ \E q \in SearchQueries, items \in ItemLists(PersonLink, MovieLink) :
          /\ query' = q
          /\ page' = SearchPage(items)
          /\ result' = search_person(q, items)
    /\ op' = "search_person"
    /\ UNCHANGED <<title, fwd, bwd>>

NextSearch == SearchMovie \/ SearchPerson

SpecSearch == InitSearch /\ [][NextSearch]_vars

---------------------------------------------------------------------------
(* Properties of the searches.                                             *)

IsSearch == op \in {"search_movie", "search_person"}

SearchLead == IF op = "search_movie" THEN TitleLead ELSE NameLead

EntryTitle(e) == IF op = "search_movie" THEN e.title ELSE e.name

EntryId(e) == IF op = "search_movie" THEN e.movieID ELSE e.personID

\* per item of the page: whether its title link and identifier were extracted
ExtractedAt ==
    [i \in 1..Len(page.items) |->
        /\ page.items[i].title_elem.present
        /\ IdSearch(page.items[i].href, SearchLead).found]

\* per item of the page: the score of its title text against the query
ItemScores ==
    [i \in 1..Len(page.items) |-> _match_score(query, page.items[i].title_elem.text)]

\* the extracted items that score at least 70
PassingOf(ext, sc) ==
    {i \in DOMAIN sc : ext[i] /\ sc[i].kind = "score" /\ sc[i].num >= Threshold * sc[i].den}

\* the place of item j among the passing items: behind every passing item of
\* a higher score and every earlier passing item of the same score
Rank(pass, sc, j) ==
    1 + Cardinality({i \in pass : \/ ScoreGT(sc[i], sc[j])
                                  \/ ScoreEQ(sc[i], sc[j]) /\ i < j})

MinOf(a, b) == IF a < b THEN a ELSE b

\* C1: search_movie and search_person return None exactly when no extracted
\* candidate scores at least 70, and never an empty list; otherwise they
\* return the first 5 (or all, if fewer) of the candidates scoring at least
\* 70, by score descending, equal scores in document order, and no entry
\* scores below 70.
C1_SearchSelectsTopFive ==
    IsSearch =>
        LET sc == ItemScores
            ext == ExtractedAt
        IN
        LET pass == PassingOf(ext, sc)
        IN  /\ (result.kind = "None") <=> (pass = {})
            /\ result.kind = "list" => result.items # <<>>
            /\ pass # {} =>
                  /\ result.kind = "list"
                  /\ Len(result.items) = MinOf(TopN, Cardinality(pass))
                  /\ \A j \in pass :
                        LET r == Rank(pass, sc, j)
                        IN  r <= TopN =>
                              /\ EntryTitle(result.items[r]) = page.items[j].title_elem.text
                              /\ EntryId(result.items[r])
                                    = IdSearch(page.items[j].href, SearchLead).group
                              /\ result.items[r].match_score = sc[j]
            /\ \A k \in 1..Len(result.items) :
                  result.items[k].match_score.num
                     >= Threshold * result.items[k].match_score.den

\* a search of more than five passing items, with two different titles of
\* one score among them; five entries of more than one score are returned
C1_Witness ==
    /\ IsSearch
    /\ LET sc == ItemScores
           ext == ExtractedAt
       IN
       LET pass == PassingOf(ext, sc)
       IN  /\ Cardinality(pass) > TopN
           /\ \E i, j \in pass :
                 /\ i < j
                 /\ ScoreEQ(sc[i], sc[j])
                 /\ page.items[i].title_elem.text # page.items[j].title_elem.text
    /\ result.kind = "list"
    /\ Len(result.items) = TopN
    /\ ScoreGT(result.items[1].match_score, result.items[TopN].match_score)

\* C8: an exact (case-insensitive) match gets the highest score: in a search
\* result no entry outscores, or is ranked above, an entry whose title equals
\* the query after case-folding.
C8_ExactMatchScoresHighest ==
    (IsSearch /\ result.kind = "list") =>
        \A i, j \in 1..Len(result.items) :
            Lower(EntryTitle(result.items[i])) = Lower(query) =>
                /\ ScoreGE(result.items[i].match_score, result.items[j].match_score)
                /\ (Lower(EntryTitle(result.items[j])) # Lower(query) => i < j)

---------------------------------------------------------------------------
(* get_season.                                                             *)

\* an optional value: Python's None, or a string
NoneValue == [none |-> TRUE, value |-> <<>>]
Some(v) == [none |-> FALSE, value |-> v]

\* an episode node: the elements its four selectors find
EpisodeNode(t, p, d, r) ==
    [title_elem |-> t, plot_elem |-> p, air_date_elem |-> d, rating_elem |-> r]

\* the separator of title_text.split: the bullet character U+2022, written "*"
Separator == "*"

\* re.search(r'Ep(\d+)', s): the match object of the leftmost match
RECURSIVE EpSearchFrom(_, _)
EpSearchFrom(s, i) ==
    IF i + 2 > Len(s) THEN [found |-> FALSE, group |-> <<>>]
    ELSE IF s[i] = "E" /\ s[i + 1] = "p" /\ s[i + 2] \in Digits
         THEN [found |-> TRUE, group |-> SubSeq(s, i + 2, i + 1 + DigitRun(s, i + 2))]
         ELSE EpSearchFrom(s, i + 1)

EpSearch(s) == EpSearchFrom(s, 1)

\* the episode number and title read from the title element's text
EpisodeHeading(text) ==
    LET title_text == Strip(text)
        ep_parts == SplitOn(title_text, Separator)
    IN  IF Len(ep_parts) >= 2
        THEN LET ep_num_match == EpSearch(ep_parts[1])
             IN  [ep_num |-> IF ep_num_match.found THEN ToInt(ep_num_match.group) ELSE 0,
                  ep_title |-> Strip(ep_parts[2])]
        ELSE [ep_num |-> 0, ep_title |-> title_text]

\* a variant that takes ep_parts[1] as the title without stripping it
EpisodeEntry_TitleNotStripped(node) ==
    IF ~node.title_elem.present THEN <<>>
    ELSE IF node.rating_elem.present /\ Split(node.rating_elem.text) = <<>> THEN <<>>
    ELSE LET title_text == Strip(node.title_elem.text)
             ep_parts == SplitOn(title_text, Separator)
             h == EpisodeHeading(node.title_elem.text)
             t == IF Len(ep_parts) >= 2 THEN ep_parts[2] ELSE title_text
         IN  << [title |-> t, episode_title |-> t, episode_number |-> h.ep_num,
                 plot |-> <<>>, original_air_date |-> <<>>, rating |-> NoneValue] >>

\* one pass of the loop body of get_season: what the node adds to episodes.
\* rating_elem.text.split()[0] raises IndexError on a text without a token;
\* the handler of the loop body then skips the node.
EpisodeEntry(node) ==
    IF ~node.title_elem.present THEN <<>>
    ELSE IF node.rating_elem.present /\ Split(node.rating_elem.text) = <<>> THEN <<>>
    ELSE LET h == EpisodeHeading(node.title_elem.text)
         IN  << [title |-> h.ep_title,
                 episode_title |-> h.ep_title,
                 episode_number |-> h.ep_num,
                 plot |-> IF node.plot_elem.present
                          THEN Strip(node.plot_elem.text) ELSE <<>>,
                 original_air_date |-> IF node.air_date_elem.present
                                       THEN Strip(node.air_date_elem.text) ELSE <<>>,
                 rating |-> IF node.rating_elem.present
                            THEN Some(Split(node.rating_elem.text)[1])
                            ELSE NoneValue] >>

RECURSIVE Episodes(_)
Episodes(nodes) ==
    IF nodes = <<>> THEN <<>>
    ELSE Episodes(SubSeq(nodes, 1, Len(nodes) - 1)) \o EpisodeEntry(nodes[Len(nodes)])

\* a variant that leaves the episodes in document order
SortByEpisodeNumber_NoSort(eps) == eps

\* sorted(episodes, key=episode_number): stable, ascending.  The last element
\* goes behind every element whose number is at most its own.
RECURSIVE SortByEpisodeNumber(_)
SortByEpisodeNumber(eps) ==
    IF eps = <<>> THEN <<>>
    ELSE LET front == SortByEpisodeNumber(SubSeq(eps, 1, Len(eps) - 1))
             x == eps[Len(eps)]
             n == Cardinality({i \in 1..Len(front) :
                                 front[i].episode_number <= x.episode_number})
         IN  SubSeq(front, 1, n) \o <<x>> \o SubSeq(front, n + 1, Len(front))

get_season(season_number, nodes) ==
    [kind |-> "season",
     season_number |-> season_number,
     episodes |-> SortByEpisodeNumber(Episodes(nodes))]

---------------------------------------------------------------------------
(* Season inputs: one-node pages over every short title text, and pages of *)
(* up to MaxEpisodes nodes drawn from a fixed set.                         *)

EpAlphabet == {"E", "p", "1", " ", "*", "x"}

EpTexts == SeqsUpTo(EpAlphabet, MaxLen)

PilotText == <<"S","1",","," ","E","p","3"," ","*"," ","P","i","l","o","t"," ","E","p","i","s","o","d","e">>
SpecialText == <<"S","p","e","c","i","a","l">>

EpisodeNodes ==
    { EpisodeNode(Absent, Elem(<<"p">>), Absent, Absent),
      EpisodeNode(Elem(PilotText), Elem(<<" ","p"," ">>), Elem(<<"2","0","2","0">>),
                  Elem(<<"8",".","1","/","1","0"," ","(","2","K",")">>)),
      EpisodeNode(Elem(<<"E","p","1"," ","*"," ","x">>), Absent, Absent, Absent),
      EpisodeNode(Elem(<<"E","p","1","*","y">>), Absent, Absent, Elem(<<"7">>)),
      EpisodeNode(Elem(<<"E","p","2","*","z">>), Absent, Absent, Absent),
      EpisodeNode(Elem(<<"E","p","2","*","w">>), Absent, Absent, Elem(<<" ">>)),
      EpisodeNode(Elem(SpecialText), Absent, Absent, Absent),
      EpisodeNode(Elem(<<"x">>), Absent, Absent, Absent) }

SeasonPages ==
    {<<EpisodeNode(Elem(t), Absent, Absent, Absent)>> : t \in EpTexts}
    \cup SeqsUpTo(EpisodeNodes, MaxEpisodes)

SeasonPage(nodes) == [kind |-> "season", nodes |-> nodes]

InitSeason ==
    /\ query = <<>>
    /\ title = <<>>
    /\ fwd = NotCalled
    /\ bwd = NotCalled
    /\ page = NoPage
    /\ result = NoResult
    /\ op = "none"

GetSeason ==
    /\ op = "none"
    /\ \E season_number \in {1, 2}, nodes \in SeasonPages :
          /\ page' = SeasonPage(nodes)
          /\ result' = get_season(season_number, nodes)
    /\ op' = "get_season"
    /\ UNCHANGED <<query, title, fwd, bwd>>

NextSeason == GetSeason

SpecSeason == InitSeason /\ [][NextSeason]_vars

---------------------------------------------------------------------------
(* Properties of get_season.                                               *)

\* the node has a title element and its parse raises nothing
ParsesAt ==
    [j \in 1..Len(page.nodes) |->
        /\ page.nodes[j].title_elem.present
        /\ ~(/\ page.nodes[j].rating_elem.present
             /\ \A i \in 1..Len(page.nodes[j].rating_elem.text) :
                   IsSpace(page.nodes[j].rating_elem.text[i]))]

\* the episode each parsed node gives
EpisodeAt ==
    [j \in {i \in 1..Len(page.nodes) : ParsesAt[i]} |-> EpisodeEntry(page.nodes[j])[1]]

\* the place of node j's episode: behind every episode of a lower number and
\* every earlier episode of the same number
EpisodeRank(eps, j) ==
    1 + Cardinality({i \in DOMAIN eps :
                        \/ eps[i].episode_number < eps[j].episode_number
                        \/ eps[i].episode_number = eps[j].episode_number /\ i < j})

\* C4: the episodes get_season returns are exactly one per node that has a
\* title element and parsed without error, by episode_number ascending,
\* episodes of equal number in document order.
C4_EpisodesSortedStable ==
    op = "get_season" =>
        LET eps == EpisodeAt
        IN  /\ Len(result.episodes) = Cardinality(DOMAIN eps)
            /\ \A j \in DOMAIN eps : result.episodes[EpisodeRank(eps, j)] = eps[j]
            /\ \A k, l \in 1..Len(result.episodes) :
                  k < l => result.episodes[k].episode_number
                             <= result.episodes[l].episode_number

\* a season whose nodes are out of number order, with two different episodes
\* of one number and a node that is skipped
C4_Witness ==
    /\ op = "get_season"
    /\ LET eps == EpisodeAt
       IN  /\ \E i, j \in DOMAIN eps :
                 i < j /\ eps[i].episode_number > eps[j].episode_number
           /\ \E i, j \in DOMAIN eps :
                 /\ i < j
                 /\ eps[i].episode_number = eps[j].episode_number
                 /\ eps[i].title # eps[j].title
           /\ \E i \in 1..Len(page.nodes) : page.nodes[i].title_elem.present /\ ~ParsesAt[i]
           /\ Len(result.episodes) = Cardinality(DOMAIN eps)
           /\ Len(result.episodes) >= 3

\* the positions of the separator in a text
SeparatorsOf(text) == {i \in 1..Len(text) : text[i] = Separator}

\* the positions of a text where an Ep<n> marker starts
MarkersOf(seg) ==
    {i \in 1..(Len(seg) - 2) : seg[i] = "E" /\ seg[i + 1] = "p" /\ seg[i + 2] \in Digits}

\* the integer of the first Ep<n> marker of a segment, 0 when it has none
MarkerNumber(seg) ==
    IF MarkersOf(seg) = {} THEN 0
    ELSE LET i == CHOOSE m \in MarkersOf(seg) : \A n \in MarkersOf(seg) : m <= n
             last == CHOOSE e \in (i + 2)..Len(seg) :
                        /\ \A d \in (i + 2)..e : seg[d] \in Digits
                        /\ (e = Len(seg) \/ seg[e + 1] \notin Digits)
         IN  ToInt(SubSeq(seg, i + 2, last))

\* the episode number and title C5 states for a title text
HeadingStated(title_text) ==
    LET seps == SeparatorsOf(title_text)
    IN  IF seps = {} THEN [number |-> 0, title |-> title_text]
        ELSE LET k == CHOOSE i \in seps : TRUE
             IN  [number |-> MarkerNumber(SubSeq(title_text, 1, k - 1)),
                  title |-> Strip(SubSeq(title_text, k + 1, Len(title_text)))]

\* C5: for a title text with one separator, episode_number is the integer
\* of the Ep<n> marker of the number segment (0 without one) and the title is
\* the title segment stripped; for a title text without separator,
\* episode_number is 0 and the title is the title text itself.
C5_EpisodeHeadingParsed ==
    op = "get_season" =>
        \A j \in 1..Len(page.nodes) :
            LET title_text == Strip(page.nodes[j].title_elem.text)
            IN  (ParsesAt[j] /\ Cardinality(SeparatorsOf(title_text)) <= 1) =>
                   \E k \in 1..Len(result.episodes) :
                      /\ result.episodes[k].episode_number = HeadingStated(title_text).number
                      /\ result.episodes[k].title = HeadingStated(title_text).title
                      /\ result.episodes[k].episode_title = HeadingStated(title_text).title

\* a one-node season whose title text has one separator, an Ep<n> marker
\* before it and a title with surrounding whitespace after it
C5_Witness ==
    /\ op = "get_season"
    /\ Len(page.nodes) = 1
    /\ ParsesAt[1]
    /\ LET title_text == Strip(page.nodes[1].title_elem.text)
       IN  /\ Cardinality(SeparatorsOf(title_text)) = 1
           /\ \E k \in SeparatorsOf(title_text) :
                 /\ MarkersOf(SubSeq(title_text, 1, k - 1)) # {}
                 /\ Strip(SubSeq(title_text, k + 1, Len(title_text)))
                       # SubSeq(title_text, k + 1, Len(title_text))
    /\ Len(result.episodes) = 1
    /\ result.episodes[1].episode_number = 1
    /\ result.episodes[1].title = <<"x">>

---------------------------------------------------------------------------
(* The structured block of a detail page, as json.loads returns it.        *)
(* A string field is an optional value; a field of another JSON type is a  *)
(* record that names the type.                                             *)

\* a credited person of the block: a JSON object with or without a name, or
\* a JSON value that is no object
Person(n) == [is_dict |-> TRUE, name |-> n]
NotAPerson == [is_dict |-> FALSE, name |-> NoneValue]

\* the value of a people field: missing, null, one object, or a list
People(k, ps) == [kind |-> k, persons |-> ps]

\* an image card of the markup: whether it holds an img element, and its src
Card(has_img, src) == [has_img |-> has_img, src |-> src]

\* data.get(key, ''): the string, or '' for a missing key
GetStr(field) == IF field.none THEN <<>> ELSE field.value

\* data.get(key, []): the list, or [] for a missing key
GetList(field) == IF field.none THEN <<>> ELSE field.value

\* `x = data.get(role, []); if not isinstance(x, list): x = [x]`
AsList(people) ==
    CASE people.kind = "absent" -> <<>>
      [] people.kind = "list" -> people.persons
      [] people.kind = "dict" -> people.persons
      [] people.kind = "null" -> <<NotAPerson>>

\* the image_url of the i-th person: None, or the src of the i-th card's img
ImageAt(cards, i) ==
    IF i <= Len(cards) /\ cards[i].has_img THEN cards[i].src ELSE NoneValue

\* the loop over enumerate(persons): {'name': p.get('name', ''), 'image': image_url}
WithImages(persons, cards) ==
    [i \in 1..Len(persons) |-> [name |-> GetStr(persons[i].name),
                                image |-> ImageAt(cards, i)]]

\* p.get raises AttributeError on a person that is no object
PairingRaises(persons) == \E i \in 1..Len(persons) : ~persons[i].is_dict

\* re.search(r'\d+', s): the match object of the leftmost match
RECURSIVE IntSearchFrom(_, _)
IntSearchFrom(s, i) ==
    IF i > Len(s) THEN [found |-> FALSE, group |-> <<>>]
    ELSE IF s[i] \in Digits
         THEN [found |-> TRUE, group |-> SubSeq(s, i, i + DigitRun(s, i) - 1)]
         ELSE IntSearchFrom(s, i + 1)

IntSearch(s) == IntSearchFrom(s, 1)

\* what the statements of get_movie and get_show share raise on: a block that
\* is no JSON object (data.get), a person that is no object, a null
\* aggregateRating (None.get) and a datePublished that is no string ([:4])
CommonRaises(data, cast, credits) ==
    \/ ~data.is_dict
    \/ PairingRaises(cast)
    \/ PairingRaises(credits)
    \/ data.aggregateRating.kind = "null"
    \/ data.datePublished.kind = "num"

Rating(data) ==
    IF data.aggregateRating.kind = "dict" THEN data.aggregateRating.ratingValue
    ELSE NoneValue

Year(data) ==
    IF data.datePublished.kind = "str" THEN Prefix(data.datePublished.value, YearLen)
    ELSE <<>>

get_movie(pg) ==
    IF pg.script = "absent" THEN None
    ELSE IF pg.script = "malformed" THEN None
    ELSE LET data == pg.data
             actors == Prefix(AsList(data.actor), MovieCastCap)
             directors == AsList(data.director)
             plot == IF pg.plot_xl.present /\ Strip(pg.plot_xl.text) # <<>>
                     THEN Strip(pg.plot_xl.text)
                     ELSE GetStr(data.description)
         IN  IF CommonRaises(data, actors, directors) THEN None
             ELSE [kind |-> "record",
                   title |-> GetStr(data.name),
                   plot_outline |-> plot,
                   cover_url |-> GetStr(data.image),
                   rating |-> Rating(data),
                   directors |-> WithImages(directors, pg.credit_nodes),
                   cast |-> WithImages(actors, pg.cast_nodes),
                   year |-> Year(data),
                   genres |-> GetList(data.genre)]

get_show(pg) ==
    IF pg.script = "absent" THEN None
    ELSE IF pg.script = "malformed" THEN None
    ELSE LET data == pg.data
             actors == Prefix(AsList(data.actor), ShowCastCap)
             creators == AsList(data.creator)
             plot == IF pg.plot_xl.present
                     THEN Strip(pg.plot_xl.text)
                     ELSE GetStr(data.description)
             season_match == IntSearch(pg.episodes_header.text)
         IN  IF CommonRaises(data, actors, creators) THEN None
             \* re.search(...) is None: None.group() raises AttributeError
             ELSE IF pg.episodes_header.present /\ ~season_match.found THEN None
             ELSE [kind |-> "record",
                   title |-> GetStr(data.name),
                   plot_outline |-> plot,
                   cover_url |-> GetStr(data.image),
                   rating |-> Rating(data),
                   creators |-> WithImages(creators, pg.credit_nodes),
                   cast |-> WithImages(actors, pg.cast_nodes),
                   year |-> Year(data),
                   genres |-> GetList(data.genre),
                   number_of_seasons |-> IF pg.episodes_header.present
                                         THEN ToInt(season_match.group) ELSE 0]

get_person(pg) ==
    IF pg.script = "absent" THEN None
    ELSE IF pg.script = "malformed" THEN None
    ELSE LET data == pg.data
         IN  IF ~data.is_dict THEN None
             ELSE [kind |-> "record",
                   name |-> GetStr(data.name),
                   bio |-> IF pg.biography.present THEN Strip(pg.biography.text)
                           ELSE GetStr(data.description),
                   headshot |-> IF pg.hero_image.has_img THEN pg.hero_image.src
                                ELSE Some(GetStr(data.image)),
                   birth_date |-> GetStr(data.birthDate),
                   birth_place |-> GetStr(data.birthPlace),
                   profession |-> GetStr(data.jobTitle)]

---------------------------------------------------------------------------
(* Detail inputs.                                                          *)

Letters == <<"a", "b", "c", "d", "e", "f", "g", "h", "i", "j", "k", "l", "m">>

\* the i-th listed person; the third one has no name
PersonAt(i) == IF i = 3 THEN Person(NoneValue) ELSE Person(Some(<<Letters[i]>>))

Listed(k) == People("list", [i \in 1..k |-> PersonAt(i)])

ActorValues ==
    { People("absent", <<>>), People("null", <<>>),
      People("dict", <<Person(Some(<<"z">>))>>), People("list", <<NotAPerson>>) }
    \cup {Listed(k) : k \in 0..MaxActors}

CreditValues ==
    { People("absent", <<>>), People("dict", <<Person(Some(<<"z">>))>>),
      Listed(MaxCards + 1) }

CastCards ==
    SeqsUpTo({ Card(TRUE, Some(<<"u">>)), Card(TRUE, NoneValue), Card(FALSE, NoneValue) },
             MaxCards)

CreditCards ==
    { <<>>, <<Card(TRUE, Some(<<"v">>))>>,
      <<Card(FALSE, NoneValue), Card(TRUE, Some(<<"v">>))>> }

PlotSpans == { Absent, Elem(<<>>), Elem(<<" ">>), Elem(<<" ", "L", " ">>) }

Descriptions == { NoneValue, Some(<<"d">>) }

Headers == { Absent, Elem(<<"3"," ","s">>), Elem(<<"1","2">>), Elem(<<"E","p","s">>) }

\* how the fields of the block other than the people and the description are
\* filled: all present, rating or date missing, the rating null, the date a
\* number, or the block no JSON object at all
Shapes == {"full", "no_rating", "no_date", "rating_null", "date_num", "not_dict"}

Block(shape, actor, credit, desc) ==
    [is_dict |-> shape # "not_dict",
     name |-> Some(<<"T">>),
     description |-> desc,
     image |-> Some(<<"i">>),
     aggregateRating |->
         [kind |-> CASE shape = "no_rating" -> "absent"
                     [] shape = "rating_null" -> "null"
                     [] OTHER -> "dict",
          ratingValue |-> Some(<<"8",".","1">>)],
     actor |-> actor,
     director |-> credit,
     creator |-> credit,
     datePublished |->
         [kind |-> CASE shape = "no_date" -> "absent"
                     [] shape = "date_num" -> "num"
                     [] OTHER -> "str",
          value |-> <<"2","0","2","0","-","0","1","-","0","2">>],
     genre |-> IF shape = "full" THEN Some(<<"Drama">>) ELSE NoneValue,
     birthDate |-> Some(<<"1","9","7","0">>),
     birthPlace |-> NoneValue,
     jobTitle |-> Some(<<"Actor">>)]

NoBlock == Block("full", People("absent", <<>>), People("absent", <<>>), NoneValue)

DetailPage(script, data, plot_xl, header, cast_nodes, credit_nodes, bio, hero) ==
    [kind |-> "detail", script |-> script, data |-> data, plot_xl |-> plot_xl,
     episodes_header |-> header, cast_nodes |-> cast_nodes,
     credit_nodes |-> credit_nodes, biography |-> bio, hero_image |-> hero]

\* the title pages: without a block or with an unparsable one; with a full
\* block and every combination of listed people, cards and header; and with
\* every combination of block shape, description, plot span and header
TitlePages(headers) ==
    { DetailPage(sc, NoBlock, pl, Absent, <<>>, <<>>, Absent, Card(FALSE, NoneValue)) :
         sc \in {"absent", "malformed"}, pl \in PlotSpans }
    \cup { DetailPage("parsed", Block("full", a, c, Some(<<"d">>)), Absent, h, cn, dn,
                      Absent, Card(FALSE, NoneValue)) :
             a \in ActorValues, c \in CreditValues, h \in headers,
             cn \in CastCards, dn \in CreditCards }
    \cup { DetailPage("parsed", Block(sh, a, People("absent", <<>>), d), pl, h,
                      <<Card(TRUE, Some(<<"u">>))>>, <<>>, Absent, Card(FALSE, NoneValue)) :
             sh \in Shapes, a \in {People("absent", <<>>), Listed(2)},
             d \in Descriptions, pl \in PlotSpans, h \in headers }

PersonPages ==
    { DetailPage(sc, Block(sh, People("absent", <<>>), People("absent", <<>>), d),
                 Absent, Absent, <<>>, <<>>, bio, hero) :
         sc \in {"absent", "malformed", "parsed"}, sh \in {"full", "not_dict"},
         d \in Descriptions, bio \in {Absent, Elem(<<" ", "b", " ">>)},
         hero \in {Card(FALSE, NoneValue), Card(TRUE, Some(<<"h">>)), Card(TRUE, NoneValue)} }

InitDetail ==
    /\ query = <<>>
    /\ title = <<>>
    /\ fwd = NotCalled
    /\ bwd = NotCalled
    /\ page = NoPage
    /\ result = NoResult
    /\ op = "none"

GetMovie ==
    /\ op = "none"
    /\ \E pg \in TitlePages({Absent}) :
          /\ page' = pg
          /\ result' = get_movie(pg)
    /\ op' = "get_movie"
    /\ UNCHANGED <<query, title, fwd, bwd>>

GetShow ==
    /\ op = "none"
    /\ \E pg \in TitlePages(Headers) :
          /\ page' = pg
          /\ result' = get_show(pg)
    /\ op' = "get_show"
    /\ UNCHANGED <<query, title, fwd, bwd>>

GetPerson ==
    /\ op = "none"
    /\ \E pg \in PersonPages :
          /\ page' = pg
          /\ result' = get_person(pg)
    /\ op' = "get_person"
    /\ UNCHANGED <<query, title, fwd, bwd>>

NextDetail == GetMovie \/ GetShow \/ GetPerson

SpecDetail == InitDetail /\ [][NextDetail]_vars

---------------------------------------------------------------------------
(* Properties of the detail lookups.                                       *)

IsTitleLookup == op \in {"get_movie", "get_show"}

IsLookup == op \in {"get_movie", "get_show", "get_person"}

\* the persons a people field of the block lists
ListedIn(people) == IF people.kind \in {"list", "dict"} THEN people.persons ELSE <<>>

\* the block parsed to a JSON object whose fields have the JSON types the
\* lookups read: persons that are objects, no null rating, a string date
WellFormedBlock ==
    /\ page.script = "parsed"
    /\ page.data.is_dict
    /\ page.data.aggregateRating.kind # "null"
    /\ page.data.datePublished.kind # "num"
    /\ \A people \in {page.data.actor, page.data.director, page.data.creator} :
          /\ people.kind # "null"
          /\ \A i \in 1..Len(people.persons) : people.persons[i].is_dict

CastCap == IF op = "get_movie" THEN MovieCastCap ELSE ShowCastCap

CreditsListed == ListedIn(IF op = "get_movie" THEN page.data.director ELSE page.data.creator)

CreditsReturned == IF op = "get_movie" THEN result.directors ELSE result.creators

\* entry i of a returned list has the name of the i-th listed person and the
\* image of the i-th card, None where there is no such card or it has no img
PairedWith(entries, persons, cards) ==
    \A i \in 1..Len(entries) :
        /\ DOMAIN entries[i] = {"name", "image"}
        /\ entries[i].name = (IF persons[i].name.none THEN <<>> ELSE persons[i].name.value)
        /\ entries[i].image = (IF i <= Len(cards) /\ cards[i].has_img
                               THEN cards[i].src ELSE NoneValue)
        /\ (i > Len(cards) \/ ~cards[i].has_img) => entries[i].image.none

PairedLists ==
    /\ Len(result.cast) = MinOf(Len(ListedIn(page.data.actor)), CastCap)
    /\ Len(CreditsReturned) = Len(CreditsListed)
    /\ PairedWith(result.cast, ListedIn(page.data.actor), page.cast_nodes)
    /\ PairedWith(CreditsReturned, CreditsListed, page.credit_nodes)

\* C2: for every structured block with n actors and every list of cast
\* cards, get_movie returns a cast list of min(n, 5) entries and get_show one
\* of min(n, 10), directors and creators have as many entries as the block
\* lists, and entry i has the i-th name and the i-th card's image, None where
\* the card or its img is missing.
C2_CastPairedAndCapped ==
    (IsTitleLookup /\ WellFormedBlock) =>
        /\ result.kind = "record"
        /\ PairedLists

\* The pairing itself, on every record a title lookup returns.
PairedOnReturnedRecords ==
    (IsTitleLookup /\ result.kind = "record") => PairedLists

\* a returned record of a block that lists more actors than the cap and than
\* there are cards
PairedOnReturnedRecordsWitness ==
    /\ IsTitleLookup
    /\ result.kind = "record"
    /\ Len(ListedIn(page.data.actor)) > CastCap
    /\ Len(page.cast_nodes) = MaxCards
    /\ Len(CreditsListed) > Len(page.credit_nodes)

\* C3: a detail lookup returns an absent result only when the page has no
\* structured block or the block fails to parse; for every page whose block
\* is present and parses, a record is returned.
C3_AbsentOnlyWithoutBlock ==
    (IsLookup /\ page.script = "parsed" /\ page.data.is_dict) => result.kind = "record"

\* the first integer in a text, 0 when it has none
FirstInteger(text) ==
    LET at == {i \in 1..Len(text) : text[i] \in Digits}
    IN  IF at = {} THEN 0
        ELSE LET i == CHOOSE m \in at : \A n \in at : m <= n
                 last == CHOOSE e \in i..Len(text) :
                            /\ \A d \in i..e : text[d] \in Digits
                            /\ (e = Len(text) \/ text[e + 1] \notin Digits)
             IN  ToInt(SubSeq(text, i, last))

\* C9: in get_show, for every page with a parseable block, 'number of
\* seasons' is the first integer of the episodes-header text, and 0 both when
\* the element is absent and when its text holds no integer; the lookup does
\* not return an absent result in either case.
C9_SeasonCountDefaultsToZero ==
    (op = "get_show" /\ WellFormedBlock) =>
        /\ result.kind = "record"
        /\ result.number_of_seasons
              = (IF page.episodes_header.present
                 THEN FirstInteger(page.episodes_header.text) ELSE 0)

\* C10: in get_movie and get_show, 'plot outline' is the trimmed text of the
\* long-form plot span when the span is present and its trimmed text is not
\* empty, and the block's description in every other case.
C10_PlotPrefersNonEmptySpan ==
    (IsTitleLookup /\ result.kind = "record") =>
        result.plot_outline
           = (IF page.plot_xl.present /\ Strip(page.plot_xl.text) # <<>>
              THEN Strip(page.plot_xl.text)
              ELSE IF page.data.description.none THEN <<>>
                   ELSE page.data.description.value)

====
